---- MODULE Spec2Model ----
(***************************************************************************)
(* State-machine model of api_motos.py: a FastAPI service over three       *)
(* SQLModel tables (marca, moto, especificacion) in a MySQL database.      *)
(*                                                                         *)
(* Handlers are plain "def" functions, which FastAPI runs on a thread      *)
(* pool, so up to NumWorkers requests are in flight at once.  Each owns its *)
(* Session (get_session).  A handler is split at its database reads: a     *)
(* read sees the rows committed so far, and session.commit() flushes the   *)
(* pending INSERT/UPDATE/DELETE and commits them in one atomic step, in    *)
(* which the database enforces the declared constraints (primary key,      *)
(* foreign_key=..., unique=True).  An exception leaves the handler, the    *)
(* "with Session" block closes the session and nothing is written.         *)
(***************************************************************************)
EXTENDS Integers, Sequences, FiniteSets, TLC

\* ---------------------------------------------------------------- bounds
NumWorkers == 2     \* requests in flight at once
MaxRequests == 5    \* requests received in one behaviour
MaxId == 2          \* ids a request may name: 1..MaxId

\* ------------------------------------------------------ program constants
CurrentYear == 2026            \* datetime.now().year at import time
NombreMaxLen == 50
PaisMaxLen == 30
AnioFundacionMin == 1800
ModeloMaxLen == 50
CilindradaMin == 50
CilindradaMax == 3000
PotenciaMin == 5
PotenciaMax == 500
PrecioMin == 0
AnioMin == 1900
TipoMotorMaxLen == 30
RefrigeracionMaxLen == 20
CapacidadTanqueMin == 0
LimitMax == 100                \* Query(le=100)
LimitDefault == 100
SkipDefault == 0

\* marcas, motos, especs: the three tables, each a function from primary key
\*   to row.  nextId: the AUTO_INCREMENT counter of each table.
\* inflight: the requests a worker thread is running, each with the place
\*   (pc) its handler has reached.  out: the last request answered, with its
\*   response.  nreq: the number of requests received so far.
VARIABLES marcas, motos, especs, nextId, inflight, out, nreq

vars == <<marcas, motos, especs, nextId, inflight, out, nreq>>
tables == <<marcas, motos, especs>>

Ids == 1..MaxId

\* Optional[...] values: None is the empty set, a present value v is {v}.
None == {}
Some(v) == {v}
TheValue(o) == CHOOSE v \in o : TRUE

\* ----------------------------------------------------------------- schema
MarcaBaseFields == {"nombre", "pais_origen", "anio_fundacion"}
\* The PATCH body model declared with marca_id among its fields.
MotoBaseFields_WithMarcaId ==
  {"modelo", "cilindrada", "potencia", "precio", "anio", "marca_id"}

MotoBaseFields == {"modelo", "cilindrada", "potencia", "precio", "anio"}
MotoCreateFields == MotoBaseFields \cup {"marca_id"}
EspecificacionBaseFields ==
  {"tipo_motor", "refrigeracion", "transmision", "capacidad_tanque"}
EspecificacionCreateFields == EspecificacionBaseFields \cup {"id_moto"}

\* Class attributes of the table models (columns and relationships).  An
\* expression such as Moto.tipo on a name outside the set raises
\* AttributeError while the query is being built.
MotoAttrs == MotoCreateFields \cup {"id_moto", "marca", "especificaciones"}
EspecificacionAttrs == EspecificacionCreateFields \cup {"id", "moto"}

\* Request validation (pydantic): every field of the body model is required
\* (none has a default) and must meet its Field(...) constraints.
ValidMarcaBase(b) ==
  /\ MarcaBaseFields \subseteq DOMAIN b
  /\ Len(b.nombre) <= NombreMaxLen
  /\ Len(b.pais_origen) <= PaisMaxLen
  /\ b.anio_fundacion >= AnioFundacionMin
  /\ b.anio_fundacion <= CurrentYear

ValidMotoBase(b) ==
  /\ MotoBaseFields \subseteq DOMAIN b
  /\ Len(b.modelo) <= ModeloMaxLen
  /\ b.cilindrada >= CilindradaMin /\ b.cilindrada <= CilindradaMax
  /\ b.potencia >= PotenciaMin /\ b.potencia <= PotenciaMax
  /\ b.precio >= PrecioMin
  /\ b.anio >= AnioMin /\ b.anio <= CurrentYear + 1

ValidMotoCreate(b) ==
  /\ ValidMotoBase(b)
  /\ "marca_id" \in DOMAIN b

ValidEspecificacionCreate(b) ==
  /\ EspecificacionCreateFields \subseteq DOMAIN b
  /\ Len(b.tipo_motor) <= TipoMotorMaxLen
  /\ Len(b.refrigeracion) <= RefrigeracionMaxLen
  /\ b.capacidad_tanque >= CapacidadTanqueMin

\* limit declared without Query(le=100).
ValidLimit_Any(limit) == TRUE

ValidLimit(limit) == limit <= LimitMax

\* X.model_validate(body): the declared fields of the model, extras dropped.
ModelValidate(fields, b) == [f \in fields |-> b[f]]

\* model_dump(exclude_unset=True): the declared fields the body did set.
ModelDumpExcludeUnset(fields, b) == [f \in (DOMAIN b \cap fields) |-> b[f]]

\* ------------------------------------------------------------- responses
Response(status, error, body) ==
  [status |-> status, error |-> error, body |-> body]
Ok(body) == Response(200, "", body)
ValidationError == Response(422, "ValidationError", <<>>)
NotFound == Response(404, "NotFound", <<>>)
Conflict == Response(400, "Conflict", <<>>)
\* An exception no handler catches: FastAPI answers 500.
AttributeError == Response(500, "AttributeError", <<>>)
IntegrityError == Response(500, "IntegrityError", <<>>)
StaleDataError == Response(500, "StaleDataError", <<>>)
ProgrammingError == Response(500, "ProgrammingError", <<>>)

\* response_model serialisation: the row with its primary key.
MarcaPublic(id) == [id |-> id, row |-> marcas'[id]]
MotoPublic(id) == [id_moto |-> id, row |-> motos'[id]]
EspecificacionPublic(id) == [id |-> id, row |-> especs'[id]]
MotoConMarca(id) ==
  [id_moto |-> id, row |-> motos[id],
   marca |-> IF motos[id].marca_id \in DOMAIN marcas
             THEN Some([id |-> motos[id].marca_id,
                        row |-> marcas[motos[id].marca_id]])
             ELSE None]

\* ------------------------------------------------------------- database
\* session.get(Model, pk): the row is there or the result is None.
SessionGet(table, id) == id \in DOMAIN table

\* A primary key that defaults to 1 instead of being generated.
AutoIncrement_Reuse(table) == 1

\* The key the database generates for a row whose primary key is None.
AutoIncrement(table) == nextId[table]

\* INSERT: the table with one more row under the generated key.
Insert(table, id, row) ==
  [k \in DOMAIN table \cup {id} |-> IF k = id THEN row ELSE table[k]]

\* DELETE of a set of keys.
Delete(table, ids) == [k \in DOMAIN table \ ids |-> table[k]]

\* select(Especificacion).where(Especificacion.id_moto == m): matching keys.
EspecsOfMoto(es, m) == {k \in DOMAIN es : es[k].id_moto = m}

\* foreign_key="marca.id" on Moto.marca_id.
FkMotoMarca(mo, ma) == \A k \in DOMAIN mo : mo[k].marca_id \in DOMAIN ma
\* foreign_key="moto.id_moto" on Especificacion.id_moto.
FkEspecMoto(es, mo) == \A k \in DOMAIN es : es[k].id_moto \in DOMAIN mo
\* The column declared without unique=True.
UniqueIdMoto_Unenforced(es) == TRUE

\* unique=True on Especificacion.id_moto.
UniqueIdMoto(es) ==
  \A j, k \in DOMAIN es : es[j].id_moto = es[k].id_moto => j = k


\* ------------------------------------------------------------- requests
\* A worker thread is free and the behaviour may receive one more request.
CanReceive == nreq < MaxRequests /\ Cardinality(inflight) < NumWorkers

\* The request r as received: n numbers the requests in arrival order.
Received(r) ==
  [f \in DOMAIN r \cup {"n", "pc"} |->
     IF f = "n" THEN nreq + 1 ELSE IF f = "pc" THEN "received" ELSE r[f]]

\* The handler of r returns or raises: the response goes out, the session
\* closes and the worker thread is free again.
Finish(r, response) ==
  /\ out' = [req |-> r, resp |-> response]
  /\ inflight' = inflight \ {r}

\* The handler of r goes on to its next database access.
Goto(r, label) ==
  /\ inflight' = (inflight \ {r}) \cup {[r EXCEPT !.pc = label]}
  /\ UNCHANGED out

\* ----------------------------------------------------------------- inputs
MarcaBodies ==
  { [nombre |-> "Honda", pais_origen |-> "Japan", anio_fundacion |-> 1948],
    [nombre |-> "Honda", pais_origen |-> "Japan", anio_fundacion |-> 1799],
    [nombre |-> "Yamaha", pais_origen |-> "Japan"] }

MotoBodies ==
  { [modelo |-> "CB500", cilindrada |-> 500, potencia |-> 47,
     precio |-> 7000, anio |-> 2023, marca_id |-> m] : m \in Ids }
  \cup
  { [modelo |-> "CB500", cilindrada |-> 49, potencia |-> 47,
     precio |-> 7000, anio |-> 2023, marca_id |-> 1] }

\* PATCH bodies: one field only, every field, every field plus a key the
\* body model does not declare, and a value out of range.
PatchBodies ==
  { [precio |-> 9000],
    [modelo |-> "CB500", cilindrada |-> 500, potencia |-> 47,
     precio |-> 9000, anio |-> 2023],
    [modelo |-> "CB650", cilindrada |-> 650, potencia |-> 47,
     precio |-> 7000, anio |-> 2023, marca_id |-> 2],
    [modelo |-> "CB500", cilindrada |-> 500, potencia |-> 501,
     precio |-> 7000, anio |-> 2023] }

EspecBodies ==
  { [tipo_motor |-> "inline-4", refrigeracion |-> "liquid",
     transmision |-> 6, capacidad_tanque |-> 17, id_moto |-> m] : m \in Ids }
  \cup
  { [tipo_motor |-> "inline-4", refrigeracion |-> "liquid",
     transmision |-> 6, capacidad_tanque |-> -1, id_moto |-> 1] }

ListQuery(skip, limit, marca_id, tipo) ==
  [skip |-> skip, limit |-> limit, marca_id |-> marca_id, tipo |-> tipo]

ListQueries ==
  { ListQuery(SkipDefault, LimitDefault, None, None),
    ListQuery(SkipDefault, 500, None, None),
    ListQuery(SkipDefault, 1, None, None),
    ListQuery(1, LimitDefault, Some(1), None),
    ListQuery(SkipDefault, LimitDefault, None, Some("sport")),
    ListQuery(SkipDefault, -1, None, None) }

NoReq == [op |-> "none", n |-> 0, pc |-> "received"]
NoResp == Response(0, "", <<>>)

Init ==
  /\ marcas = <<>>
  /\ motos = <<>>
  /\ especs = <<>>
  /\ nextId = [marca |-> 1, moto |-> 1, espec |-> 1]
  /\ inflight = {}
  /\ out = [req |-> NoReq, resp |-> NoResp]
  /\ nreq = 0

\* ------------------------------------------------------- POST /marcas/
crear_marca ==
  /\ CanReceive
  /\ \E b \in MarcaBodies :
       LET r == Received([op |-> "crear_marca", body |-> b])
       IN IF ~ValidMarcaBase(b)
          THEN /\ Finish(r, ValidationError)
               /\ UNCHANGED <<marcas, nextId>>
          ELSE /\ marcas' = Insert(marcas, AutoIncrement("marca"),
                                   ModelValidate(MarcaBaseFields, b))
               /\ nextId' = [nextId EXCEPT !.marca = @ + 1]
               /\ Finish(r, Ok(<<MarcaPublic(AutoIncrement("marca"))>>))
  /\ nreq' = nreq + 1
  /\ UNCHANGED <<motos, especs>>

\* -------------------------------------------------------- POST /motos/
\* The handler without its "if not marca" test.
MarcaFound_Always(b) == TRUE

\* marca = session.get(Marca, moto.marca_id); "if not marca" is its negation.
MarcaFound(b) == SessionGet(marcas, b.marca_id)

\* Validation, then session.get(Marca, moto.marca_id).
crear_moto ==
  /\ CanReceive
  /\ \E b \in MotoBodies :
       LET r == Received([op |-> "crear_moto", body |-> b])
       IN IF ~ValidMotoCreate(b) THEN Finish(r, ValidationError)
          ELSE IF ~MarcaFound(b) THEN Finish(r, NotFound)
          ELSE Goto(r, "crear_moto_commit")
  /\ nreq' = nreq + 1
  /\ UNCHANGED <<marcas, motos, especs, nextId>>

\* session.add(db_moto); session.commit(); session.refresh(db_moto).
crear_moto_commit(r) ==
  /\ r.pc = "crear_moto_commit"
  /\ LET id == AutoIncrement("moto")
         mo == Insert(motos, id, ModelValidate(MotoCreateFields, r.body))
     IN IF FkMotoMarca(mo, marcas)
        THEN /\ motos' = mo
             /\ nextId' = [nextId EXCEPT !.moto = @ + 1]
             /\ Finish(r, Ok(<<MotoPublic(id)>>))
        ELSE /\ Finish(r, IntegrityError)
             /\ UNCHANGED <<motos, nextId>>
  /\ UNCHANGED <<marcas, especs, nreq>>

\* --------------------------------------------------------- GET /motos/
\* "if marca_id:" and "if tipo:": None, 0 and "" are false.
Truthy(o) == o # None /\ TheValue(o) # 0
TruthyStr(o) == o # None /\ TheValue(o) # ""

Min(S) == CHOOSE x \in S : \A y \in S : x <= y

\* The keys of S in primary-key order, as the table scan returns them.
RECURSIVE InKeyOrder(_)
InKeyOrder(S) ==
  IF S = {} THEN <<>> ELSE <<Min(S)>> \o InKeyOrder(S \ {Min(S)})

\* query.offset(skip).limit(limit) over the selected keys.
OffsetLimit(keys, skip, limit) ==
  SubSeq(keys, skip + 1,
         IF skip + limit < Len(keys) THEN skip + limit ELSE Len(keys))

\* The where clauses the handler adds to select(Moto).
SelectMotos(q) ==
  { k \in DOMAIN motos :
      /\ Truthy(q.marca_id) => motos[k].marca_id = TheValue(q.marca_id)
      /\ TruthyStr(q.tipo) =>
           /\ "tipo" \in DOMAIN motos[k]
           /\ motos[k].tipo = TheValue(q.tipo) }

MotoList(keys) ==
  [i \in 1..Len(keys) |-> [id_moto |-> keys[i], row |-> motos[keys[i]]]]

\* limit is validated by Query(le=100); Moto.tipo is evaluated when tipo is
\* given; MySQL refuses a negative LIMIT or OFFSET.
ListarMotosResponse(q) ==
  IF ~ValidLimit(q.limit) THEN ValidationError
  ELSE IF TruthyStr(q.tipo) /\ "tipo" \notin MotoAttrs THEN AttributeError
  ELSE IF q.limit < 0 \/ q.skip < 0 THEN ProgrammingError
  ELSE Ok(MotoList(OffsetLimit(InKeyOrder(SelectMotos(q)), q.skip, q.limit)))

listar_motos ==
  /\ CanReceive
  /\ \E q \in ListQueries :
       Finish(Received([op |-> "listar_motos", query |-> q]),
              ListarMotosResponse(q))
  /\ nreq' = nreq + 1
  /\ UNCHANGED <<marcas, motos, especs, nextId>>

\* ------------------------------------------------ GET /motos/{moto_id}
obtener_moto ==
  /\ CanReceive
  /\ \E id \in Ids :
       LET r == Received([op |-> "obtener_moto", id |-> id])
       IN IF ~SessionGet(motos, id) THEN Finish(r, NotFound)
          ELSE Finish(r, Ok(<<MotoConMarca(id)>>))
  /\ nreq' = nreq + 1
  /\ UNCHANGED <<marcas, motos, especs, nextId>>

\* ---------------------------------------------- PATCH /motos/{moto_id}
\* Validation of the body as a MotoBase, then session.get(Moto, moto_id);
\* moto_db is the row as loaded.
actualizar_moto ==
  /\ CanReceive
  /\ \E id \in Ids, b \in PatchBodies :
       LET r == Received([op |-> "actualizar_moto", id |-> id, body |-> b])
       IN IF ~ValidMotoBase(b) THEN Finish(r, ValidationError)
          ELSE IF ~SessionGet(motos, id) THEN Finish(r, NotFound)
          ELSE /\ inflight' = inflight \cup
                    {[f \in DOMAIN r \cup {"moto_db"} |->
                        IF f = "moto_db" THEN motos[id]
                        ELSE IF f = "pc" THEN "actualizar_moto_commit"
                        ELSE r[f]]}
               /\ UNCHANGED out
  /\ nreq' = nreq + 1
  /\ UNCHANGED <<marcas, motos, especs, nextId>>

\* setattr(moto_db, key, value) for each dumped key: the unit of work
\* records the attributes whose value differs from the one loaded, and the
\* flush UPDATEs those columns of the row.
SetAttrs(row, moto_db, moto_data) ==
  [f \in DOMAIN row |->
     IF f \in DOMAIN moto_data /\ moto_data[f] # moto_db[f]
     THEN moto_data[f] ELSE row[f]]

\* session.add(moto_db); session.commit(); session.refresh(moto_db).
actualizar_moto_commit(r) ==
  /\ r.pc = "actualizar_moto_commit"
  /\ LET moto_data == ModelDumpExcludeUnset(MotoBaseFields, r.body)
     IN IF ~SessionGet(motos, r.id)
        THEN /\ Finish(r, StaleDataError)
             /\ UNCHANGED motos
        ELSE LET mo == [motos EXCEPT
                          ![r.id] = SetAttrs(@, r.moto_db, moto_data)]
             IN IF FkMotoMarca(mo, marcas)
                THEN /\ motos' = mo
                     /\ Finish(r, Ok(<<MotoPublic(r.id)>>))
                ELSE /\ Finish(r, IntegrityError)
                     /\ UNCHANGED motos
  /\ UNCHANGED <<marcas, especs, nextId, nreq>>

\* --------------------------------------------- DELETE /motos/{moto_id}
\* session.get(Moto, moto_id); then the select is built from
\* Especificacion.moto_id, an expression evaluated before any further
\* database access.  Past that expression the handler deletes the first
\* matching specification and the motorcycle in one commit.
eliminar_moto ==
  /\ CanReceive
  /\ \E id \in Ids :
       LET r == Received([op |-> "eliminar_moto", id |-> id])
       IN IF ~SessionGet(motos, id)
          THEN /\ Finish(r, NotFound)
               /\ UNCHANGED <<motos, especs>>
          ELSE IF "moto_id" \notin EspecificacionAttrs
          THEN /\ Finish(r, AttributeError)
               /\ UNCHANGED <<motos, especs>>
          ELSE LET found == EspecsOfMoto(especs, id)
                   es == IF found = {} THEN especs
                         ELSE Delete(especs, {Min(found)})
                   mo == Delete(motos, {id})
               IN IF FkEspecMoto(es, mo)
                  THEN /\ especs' = es
                       /\ motos' = mo
                       /\ Finish(r, Ok(<<[ok |-> TRUE]>>))
                  ELSE /\ Finish(r, IntegrityError)
                       /\ UNCHANGED <<motos, especs>>
  /\ nreq' = nreq + 1
  /\ UNCHANGED <<marcas, nextId>>

\* ------------------------------------------- POST /especificaciones/
\* The handler without its "if not moto" test.
MotoFound_Always(b) == TRUE

\* moto = session.get(Moto, espec.id_moto); "if not moto" is its negation.
MotoFound(b) == SessionGet(motos, b.id_moto)

\* existing_espec: the first Especificacion with the body's id_moto, if any.
ExistingEspec(b) == EspecsOfMoto(especs, b.id_moto) # {}

\* The constraints the INSERT into especificacion is checked against.
EspecConstraints(es, mo) == FkEspecMoto(es, mo) /\ UniqueIdMoto(es)

\* Validation, then session.get(Moto, espec.id_moto).
crear_especificacion ==
  /\ CanReceive
  /\ \E b \in EspecBodies :
       LET r == Received([op |-> "crear_especificacion", body |-> b])
       IN IF ~ValidEspecificacionCreate(b) THEN Finish(r, ValidationError)
          ELSE IF ~MotoFound(b) THEN Finish(r, NotFound)
          ELSE Goto(r, "crear_especificacion_check")
  /\ nreq' = nreq + 1
  /\ UNCHANGED <<marcas, motos, especs, nextId>>

\* The pre-check: select ... where id_moto == espec.id_moto, .first().
crear_especificacion_check(r) ==
  /\ r.pc = "crear_especificacion_check"
  /\ IF ExistingEspec(r.body)
     THEN Finish(r, Conflict)
     ELSE Goto(r, "crear_especificacion_commit")
  /\ UNCHANGED <<marcas, motos, especs, nextId, nreq>>

\* The commit with the failed INSERT left in the table.
crear_especificacion_commit_NoRollback(r) ==
  /\ r.pc = "crear_especificacion_commit"
  /\ LET id == AutoIncrement("espec")
         es == Insert(especs, id,
                      ModelValidate(EspecificacionCreateFields, r.body))
     IN /\ especs' = es
        /\ nextId' = [nextId EXCEPT !.espec = @ + 1]
        /\ IF EspecConstraints(es, motos)
           THEN Finish(r, Ok(<<EspecificacionPublic(id)>>))
           ELSE Finish(r, IntegrityError)
  /\ UNCHANGED <<marcas, motos, nreq>>

\* session.add(db_espec); session.commit(); session.refresh(db_espec).
crear_especificacion_commit(r) ==
  /\ r.pc = "crear_especificacion_commit"
  /\ LET id == AutoIncrement("espec")
         es == Insert(especs, id,
                      ModelValidate(EspecificacionCreateFields, r.body))
     IN IF EspecConstraints(es, motos)
        THEN /\ especs' = es
             /\ nextId' = [nextId EXCEPT !.espec = @ + 1]
             /\ Finish(r, Ok(<<EspecificacionPublic(id)>>))
        ELSE /\ Finish(r, IntegrityError)
             /\ UNCHANGED <<especs, nextId>>
  /\ UNCHANGED <<marcas, motos, nreq>>

Next ==
  \/ crear_marca
  \/ crear_moto
  \/ \E r \in inflight : crear_moto_commit(r)
  \/ listar_motos
  \/ obtener_moto
  \/ actualizar_moto
  \/ \E r \in inflight : actualizar_moto_commit(r)
  \/ eliminar_moto
  \/ crear_especificacion
  \/ \E r \in inflight : crear_especificacion_check(r)
  \/ \E r \in inflight : crear_especificacion_commit(r)

Spec == Init /\ [][Next]_vars

\* ================================================================ claims
\* A request is answered in this step: out' holds it and its response.
Completes == out' # out
\* A request is received in this step.
Arrives == nreq' # nreq
\* The request received in this step, as the step leaves it.
NewReq ==
  IF out'.req.n = nreq' THEN out'.req
  ELSE CHOOSE r \in inflight' : r.n = nreq'
\* The request received in this step is answered in this step.
AnsweredAtOnce == out'.req.n = nreq'
\* The last request answered was one of operation op.
Done(op) == out.req.op = op

\* C1: a createSpecification request that is answered while a committed
\* Specification of its motorcycle exists is answered Conflict (400),
\* whatever the interleaving with the request that created it.
C1_ConflictWheneverCommitted ==
  [][( /\ Completes
       /\ out'.req.op = "crear_especificacion"
       /\ ValidEspecificacionCreate(out'.req.body)
       /\ EspecsOfMoto(especs, out'.req.body.id_moto) # {} )
     => out'.resp = Conflict]_vars

\* C2: no two Specification rows share an id_moto.
C2_AtMostOneSpecPerMoto ==
  \A m \in Ids : Cardinality(EspecsOfMoto(especs, m)) <= 1

\* Two createSpecification requests for one motorcycle raced past the
\* pre-check; one row was committed and the other INSERT was refused.
C2_Witness ==
  /\ Done("crear_especificacion")
  /\ out.resp = IntegrityError
  /\ Cardinality(EspecsOfMoto(especs, out.req.body.id_moto)) = 1

\* C3: deleteMotorcycle on an existing motorcycle with a Specification
\* answers {ok: true} and removes both rows.
C3_DeleteRemovesBoth ==
  [][( /\ Completes
       /\ out'.req.op = "eliminar_moto"
       /\ out'.req.id \in DOMAIN motos
       /\ EspecsOfMoto(especs, out'.req.id) # {} )
     => /\ out'.resp = Ok(<<[ok |-> TRUE]>>)
        /\ out'.req.id \notin DOMAIN motos'
        /\ EspecsOfMoto(especs', out'.req.id) = {}]_vars

\* C4: updateMotorcycle on an existing motorcycle with a body that sets only
\* some MotoBase fields (each within its range) succeeds, stores exactly
\* those fields and leaves every other field and row as it was.
PartialBody(b) ==
  /\ DOMAIN b # {}
  /\ DOMAIN b \subseteq MotoBaseFields
  /\ DOMAIN b # MotoBaseFields
  /\ "precio" \in DOMAIN b => b.precio >= PrecioMin

C4_PartialUpdate ==
  [][( /\ Completes
       /\ out'.req.op = "actualizar_moto"
       /\ out'.req.id \in DOMAIN motos
       /\ PartialBody(out'.req.body) )
     => /\ out'.resp.status = 200
        /\ motos' = [motos EXCEPT ![out'.req.id] =
                       [f \in DOMAIN @ |->
                          IF f \in DOMAIN out'.req.body
                          THEN out'.req.body[f] ELSE @[f]]]
        /\ marcas' = marcas
        /\ especs' = especs]_vars

\* C5: createMotorcycle whose marca_id names no Brand is answered NotFound
\* (404) in the step that looks the brand up, and no table changes.
C5_MissingBrandNotFound ==
  [][( /\ Arrives
       /\ NewReq.op = "crear_moto"
       /\ ValidMotoCreate(NewReq.body)
       /\ NewReq.body.marca_id \notin DOMAIN marcas )
     => /\ AnsweredAtOnce
        /\ out'.resp = NotFound
        /\ tables' = tables]_vars

\* A Brand exists, and a createMotorcycle naming another one was refused.
C5_Witness ==
  /\ Done("crear_moto")
  /\ out.resp = NotFound
  /\ out.req.body.marca_id \notin DOMAIN marcas
  /\ marcas # <<>>
  /\ motos = <<>>

\* C6 as stated: every listMotorcycles request whose skip and limit are not
\* negative and that gives no tipo returns a list of at most 100 records.
C6_AlwaysAListOfAtMost100 ==
  ( /\ Done("listar_motos")
    /\ out.req.query.limit >= 0
    /\ out.req.query.skip >= 0
    /\ out.req.query.tipo = None )
  => /\ out.resp.status = 200
     /\ Len(out.resp.body) <= 100

\* C6 amended: a limit above 100 is refused with a validation error (422)
\* and no list; a list that is returned holds at most limit records, hence
\* at most 100; and a request with 0 <= limit <= 100, skip >= 0 and no tipo
\* does return a list.
C6_LimitOver100Rejected ==
  Done("listar_motos") =>
    LET q == out.req.query
    IN /\ q.limit > 100 => out.resp = ValidationError
       /\ out.resp.status = 200 =>
            /\ Len(out.resp.body) <= q.limit
            /\ Len(out.resp.body) <= 100
       /\ (q.limit >= 0 /\ q.limit <= 100 /\ q.skip >= 0 /\ q.tipo = None)
            => out.resp.status = 200

\* With two motorcycles stored, a limit of 500 was refused.
C6_Witness ==
  /\ Done("listar_motos")
  /\ out.req.query.limit = 500
  /\ out.resp = ValidationError
  /\ Cardinality(DOMAIN motos) = 2

\* C7: every step either leaves the three tables alone or is the commit of
\* one request that is answered 200 and whose writes are all applied; a
\* request answered with an error changes no table; and no step removes a
\* motorcycle without its Specification or a Specification without its
\* motorcycle.
FullEffect ==
  LET r == out'.req
      res == out'.resp.body[1]
  IN CASE r.op = "crear_marca" ->
            /\ res.id \notin DOMAIN marcas
            /\ marcas' = Insert(marcas, res.id,
                                [f \in MarcaBaseFields |-> r.body[f]])
            /\ motos' = motos /\ especs' = especs
       [] r.op = "crear_moto" ->
            /\ res.id_moto \notin DOMAIN motos
            /\ motos' = Insert(motos, res.id_moto,
                               [f \in MotoCreateFields |-> r.body[f]])
            /\ marcas' = marcas /\ especs' = especs
       [] r.op = "crear_especificacion" ->
            /\ res.id \notin DOMAIN especs
            /\ especs' = Insert(especs, res.id,
                                [f \in EspecificacionCreateFields |-> r.body[f]])
            /\ marcas' = marcas /\ motos' = motos
       [] r.op = "actualizar_moto" ->
            /\ DOMAIN motos' = DOMAIN motos
            /\ \A k \in DOMAIN motos \ {r.id} : motos'[k] = motos[k]
            /\ \A f \in DOMAIN motos[r.id] :
                 motos'[r.id][f] =
                   IF f \in DOMAIN r.body \cap MotoBaseFields
                      /\ r.body[f] # r.moto_db[f]
                   THEN r.body[f] ELSE motos[r.id][f]
            /\ marcas' = marcas /\ especs' = especs
       [] r.op = "eliminar_moto" ->
            /\ motos' = Delete(motos, {r.id})
            /\ especs' = Delete(especs, EspecsOfMoto(especs, r.id))
            /\ marcas' = marcas
       [] OTHER -> FALSE

C7_AllOrNothing ==
  [][/\ tables' # tables =>
          (Completes /\ out'.resp.status = 200 /\ FullEffect)
     /\ (Completes /\ out'.resp.status # 200) => tables' = tables
     /\ \A m \in Ids :
          /\ (m \in DOMAIN motos /\ m \notin DOMAIN motos')
               => EspecsOfMoto(especs', m) = {}
          /\ (EspecsOfMoto(especs, m) # {} /\ EspecsOfMoto(especs', m) = {})
               => m \notin DOMAIN motos']_vars

\* A delete request on a motorcycle with a Specification has been answered
\* with an error, and both rows are still there.
C7_Witness ==
  /\ Done("eliminar_moto")
  /\ out.resp.status # 200
  /\ out.req.id \in DOMAIN motos
  /\ EspecsOfMoto(especs, out.req.id) # {}

\* C8: createBrand with a valid body is answered at once with 200, stores
\* one new row under an id no Brand had before, and returns that id with
\* fields equal to the body; a Brand of the same name does not matter.
C8_CreateBrand ==
  [][( /\ Arrives
       /\ NewReq.op = "crear_marca"
       /\ ValidMarcaBase(NewReq.body) )
     => /\ AnsweredAtOnce
        /\ out'.resp.status = 200
        /\ LET res == out'.resp.body[1]
           IN /\ res.id \notin DOMAIN marcas
              /\ DOMAIN marcas' = DOMAIN marcas \cup {res.id}
              /\ \A k \in DOMAIN marcas : marcas'[k] = marcas[k]
              /\ \A f \in MarcaBaseFields :
                   /\ res.row[f] = NewReq.body[f]
                   /\ marcas'[res.id][f] = NewReq.body[f]
        /\ motos' = motos
        /\ especs' = especs]_vars

\* Two Brands of the same name are stored under different ids.
C8_Witness ==
  /\ Done("crear_marca")
  /\ out.resp.status = 200
  /\ \E j \in DOMAIN marcas :
       /\ j # out.resp.body[1].id
       /\ marcas[j].nombre = out.req.body.nombre

\* C9: createSpecification whose id_moto names no Motorcycle is answered
\* NotFound (404) in the step that looks the motorcycle up, before the
\* Conflict pre-check is reached, and no table changes.
C9_MissingMotoNotFound ==
  [][( /\ Arrives
       /\ NewReq.op = "crear_especificacion"
       /\ ValidEspecificacionCreate(NewReq.body)
       /\ NewReq.body.id_moto \notin DOMAIN motos )
     => /\ AnsweredAtOnce
        /\ out'.resp = NotFound
        /\ tables' = tables]_vars

\* A motorcycle with a Specification exists, and a createSpecification
\* naming another motorcycle was refused.
C9_Witness ==
  /\ Done("crear_especificacion")
  /\ out.resp = NotFound
  /\ out.req.body.id_moto \notin DOMAIN motos
  /\ especs # <<>>

\* C10: every Motorcycle's marca_id names a Brand and every Specification's
\* id_moto names a Motorcycle, in every state; and no step changes the
\* marca_id of a Motorcycle or the id_moto of a Specification.
ReferentialIntegrity ==
  /\ \A k \in DOMAIN motos : motos[k].marca_id \in DOMAIN marcas
  /\ \A k \in DOMAIN especs : especs[k].id_moto \in DOMAIN motos

KeysKept ==
  /\ \A k \in DOMAIN motos \cap DOMAIN motos' :
       motos'[k].marca_id = motos[k].marca_id
  /\ \A k \in DOMAIN especs \cap DOMAIN especs' :
       especs'[k].id_moto = especs[k].id_moto

C10_ReferentialIntegrity == []ReferentialIntegrity /\ [][KeysKept]_vars

\* A motorcycle with a Specification was updated by a body that carried
\* another marca_id, and a delete of it has then been answered.
C10_Witness ==
  /\ Done("eliminar_moto")
  /\ out.resp.status # 404
  /\ EspecsOfMoto(especs, out.req.id) # {}
  /\ motos[out.req.id].modelo = "CB650"
  /\ motos[out.req.id].marca_id = 1
====
